---- MODULE Spec2Model ----
(***************************************************************************)
(* commrate: grading of Git commits.                                       *)
(*                                                                         *)
(* Spec follows the loop of main: the configuration is read from the       *)
(* command line, then an item is pulled from the traversal                 *)
(* (GitTraversal::next), checked against the limit of --number and the     *)
(* pre-filters, parsed into a CommitInfo (GitRepositoryItem::parse:        *)
(* MessageInfo::new, then either CommitInfo::new_from_merge or             *)
(* CommitInfo::new with the classifier), scored (Scorer::score with the    *)
(* rules and weights of init_scorer), checked against the post-filters     *)
(* and printed.  main.rs applies its filters before the parse only; the    *)
(* step of the post-filters follows the description of the pipeline.       *)
(* The traversal is a sequence drawn by Init; position counts the items    *)
(* pulled, emitted keeps the commits printed and worked the steps taken.   *)
(* Spec runs the loop over every single commit of Items, SpecRun over the  *)
(* traversals of several commits of RunItems.                              *)
(*                                                                         *)
(* The functions of the program also have specifications of their own,     *)
(* whose Init draws the inputs and whose action applies the function:      *)
(* SpecClassify (do_classify_commit), SpecGrade (GradeSpec::from_str and   *)
(* matches), SpecOrder (the comparison of Grade), SpecFilter               *)
(* (FilterChain::accept) and SpecMessage (MessageInfo::new).               *)
(*                                                                         *)
(* Text is a TLA+ string; a character is a string of length one, and the   *)
(* texts are ASCII.  The f32 values of the rules are kept as exact         *)
(* fractions <<num, den>>, and the scorer's accumulator as an exact        *)
(* fraction too; f32::ln is computed to ten binary digits.  The product    *)
(* diff_total as f32 * 0.05, truncated, equals diff_total * 5 \div 100 for *)
(* every diff_total below 2^24.                                            *)
(***************************************************************************)
EXTENDS Integers, Sequences, FiniteSets, TLC

VARIABLES
    pc,       \* position of the program
    arg,      \* the arguments of the command line; the text of --grades
              \* where GradeSpec::from_str is taken alone
    spec,     \* the Result of GradeSpec::from_str
    item,     \* the GitRepositoryItem pulled from the traversal; the inputs
              \* drawn where a function is taken alone
    commit,   \* the CommitInfo built by GitRepositoryItem::parse
    classes,  \* the set returned by do_classify_commit
    scored,   \* the Score returned by Scorer::score
    called,   \* the rules whose score() the last Scorer::score has called
    config,     \* the AppConfig returned by read_config
    commit_num, \* the commits printed so far by the loop of main
    grade_arg,  \* the Grade handed to GradeSpec::matches
    accepted,   \* the value returned by the last accept() or matches()
    consulted,  \* the filters whose accept() the last FilterChain::accept called
    message_info, \* the MessageInfo returned by MessageInfo::new
    ordering,   \* the values returned by the comparisons of Grade
    traversal,  \* the items the traversal gives, in its order
    position,   \* the number of items pulled from the traversal so far
    emitted,    \* the commits printed so far, each with its place in the
                \* traversal
    worked      \* the steps taken so far, each with the place of its item

vars ==
    <<pc, arg, spec, item, commit, classes, scored, called, config, commit_num,
      grade_arg, accepted, consulted, message_info, ordering, traversal,
      position, emitted, worked>>

\* Option: None is the empty tuple, Some(v) the tuple of v alone
None == <<>>

Some(v) == <<v>>

----------------------------------------------------------------------------
(* Text helpers *)

CharAt(s, i) == SubSeq(s, i, i)

RECURSIVE Strings(_, _)
\* every text of at most n characters over the given alphabet
Strings(alphabet, n) ==
    IF n = 0 THEN {""}
    ELSE LET shorter == Strings(alphabet, n - 1)
         IN  shorter \cup { s \o c : s \in shorter, c \in alphabet }

Uppers == <<"A","B","C","D","E","F","G","H","I","J","K","L","M",
            "N","O","P","Q","R","S","T","U","V","W","X","Y","Z">>

Lowers == <<"a","b","c","d","e","f","g","h","i","j","k","l","m",
            "n","o","p","q","r","s","t","u","v","w","x","y","z">>

Digits == {"0","1","2","3","4","5","6","7","8","9"}

\* char::to_ascii_lowercase
CharToAsciiLowercase(c) ==
    IF \E i \in 1..26 : Uppers[i] = c
    THEN Lowers[CHOOSE i \in 1..26 : Uppers[i] = c]
    ELSE c

RECURSIVE to_ascii_lowercase(_)
\* str::to_ascii_lowercase
to_ascii_lowercase(s) ==
    IF s = "" THEN ""
    ELSE CharToAsciiLowercase(CharAt(s, 1)) \o to_ascii_lowercase(Tail(s))

----------------------------------------------------------------------------
(* scoring/grade.rs: Grade, Relation, GradeSpec *)

\* the variants of Grade declared from A down to F
Grades_a_first == <<"A", "B", "C", "D", "F">>

\* enum Grade { F, D, C, B, A }, ordered by the position of the variant
Grades == <<"F", "D", "C", "B", "A">>

Grade == { Grades[i] : i \in 1..Len(Grades) }

GradeIndex(g) == CHOOSE i \in 1..Len(Grades) : Grades[i] = g

Relation == {"Eq", "Le", "Ge"}

\* the four Err values of GradeSpec::from_str
InvalidGrade == "grade must be one of: A, B, C, D, F"

MissingGrade == "grade must be specified"

InvalidRelation == "grade relation must be one of: +, -, <empty>"

TrailingInput == "grade specification should not contain extra characters"

Ok(v) == [ok |-> TRUE, value |-> v]

Err(e) == [ok |-> FALSE, err |-> e]

\* the relation arm of from_str with '+' and '-' exchanged
from_str_rel_swapped(s) ==
    IF Len(s) < 2 THEN Ok("Eq")
    ELSE CASE CharAt(s, 2) = "+" -> Ok("Le")
           [] CharAt(s, 2) = "-" -> Ok("Ge")
           [] OTHER -> Err(InvalidRelation)

\* the relation arm of from_str rejecting extra characters first
from_str_rel_trailing_first(s) ==
    IF Len(s) < 2 THEN Ok("Eq")
    ELSE IF Len(s) > 2 THEN Err(TrailingInput)
    ELSE CASE CharAt(s, 2) = "+" -> Ok("Ge")
           [] CharAt(s, 2) = "-" -> Ok("Le")
           [] OTHER -> Err(InvalidRelation)

\* the grade arm of from_str without the lower-case letters
from_str_grade_upper_only(s) ==
    IF Len(s) = 0 THEN Err(MissingGrade)
    ELSE CASE CharAt(s, 1) = "A" -> Ok("A")
           [] CharAt(s, 1) = "B" -> Ok("B")
           [] CharAt(s, 1) = "C" -> Ok("C")
           [] CharAt(s, 1) = "D" -> Ok("D")
           [] CharAt(s, 1) = "F" -> Ok("F")
           [] OTHER -> Err(InvalidGrade)

\* first match of from_str: chars.next() mapped to a Grade
from_str_grade(s) ==
    IF Len(s) = 0 THEN Err(MissingGrade)
    ELSE CASE CharAt(s, 1) \in {"A", "a"} -> Ok("A")
           [] CharAt(s, 1) \in {"B", "b"} -> Ok("B")
           [] CharAt(s, 1) \in {"C", "c"} -> Ok("C")
           [] CharAt(s, 1) \in {"D", "d"} -> Ok("D")
           [] CharAt(s, 1) \in {"F", "f"} -> Ok("F")
           [] OTHER -> Err(InvalidGrade)

\* second match of from_str: the next character mapped to a Relation
from_str_rel(s) ==
    IF Len(s) < 2 THEN Ok("Eq")
    ELSE CASE CharAt(s, 2) = "+" -> Ok("Ge")
           [] CharAt(s, 2) = "-" -> Ok("Le")
           [] OTHER -> Err(InvalidRelation)

\* impl FromStr for GradeSpec
from_str(s) ==
    LET grade == from_str_grade(s)
        rel   == from_str_rel(s)
    IN  IF ~grade.ok THEN grade
        ELSE IF ~rel.ok THEN rel
        ELSE IF Len(s) > 2 THEN Err(TrailingInput)
        ELSE Ok([grade |-> grade.value, rel |-> rel.value])

\* #[derive(PartialOrd)] for Grade: the variants compare by their position
partial_cmp(a, b) ==
    IF GradeIndex(a) < GradeIndex(b) THEN Some("Less")
    ELSE IF GradeIndex(a) = GradeIndex(b) THEN Some("Equal")
    ELSE Some("Greater")

\* PartialOrd::lt, le, gt, ge as derived from partial_cmp
lt(a, b) == partial_cmp(a, b) = Some("Less")

le(a, b) == partial_cmp(a, b) \in {Some("Less"), Some("Equal")}

gt(a, b) == partial_cmp(a, b) = Some("Greater")

ge(a, b) == partial_cmp(a, b) \in {Some("Greater"), Some("Equal")}

\* GradeSpec::matches with a strict comparison for Ge
matches_ge_strict(self, g) ==
    CASE self.rel = "Eq" -> g = self.grade
      [] self.rel = "Ge" -> gt(g, self.grade)
      [] self.rel = "Le" -> le(g, self.grade)

\* GradeSpec::matches
matches(self, g) ==
    CASE self.rel = "Eq" -> g = self.grade
      [] self.rel = "Ge" -> ge(g, self.grade)
      [] self.rel = "Le" -> le(g, self.grade)

\* the rendering of tests::valid_grade_spec_is_parsed_successfully:
\* format!("{:?}{}", grade, rel_str)
Format(grade, rel) ==
    grade \o (CASE rel = "Eq" -> "" [] rel = "Le" -> "-" [] rel = "Ge" -> "+")

----------------------------------------------------------------------------
(* commit/message.rs: MessageInfo *)

IndexOf(s, c) ==
    IF \E i \in 1..Len(s) : CharAt(s, i) = c
    THEN CHOOSE i \in 1..Len(s) :
             CharAt(s, i) = c /\ \A j \in 1..(i - 1) : CharAt(s, j) # c
    ELSE 0

StripCr(l) ==
    IF Len(l) > 0 /\ CharAt(l, Len(l)) = "\r" THEN SubSeq(l, 1, Len(l) - 1) ELSE l

RECURSIVE lines(_)
\* str::lines: the pieces between line feeds, without a last empty piece
lines(s) ==
    IF s = "" THEN <<>>
    ELSE LET i == IndexOf(s, "\n")
         IN  IF i = 0 THEN <<s>>
             ELSE <<StripCr(SubSeq(s, 1, i - 1))>> \o lines(SubSeq(s, i + 1, Len(s)))

WhiteSpace == {" ", "\t", "\n", "\r", "\f"}

RECURSIVE trim_start(_)
trim_start(s) ==
    IF Len(s) > 0 /\ CharAt(s, 1) \in WhiteSpace THEN trim_start(Tail(s)) ELSE s

RECURSIVE trim_end(_)
trim_end(s) ==
    IF Len(s) > 0 /\ CharAt(s, Len(s)) \in WhiteSpace
    THEN trim_end(SubSeq(s, 1, Len(s) - 1))
    ELSE s

\* str::trim
trim(s) == trim_end(trim_start(s))

\* lazy_static! META_KEYS
META_KEYS ==
    {"acked-by", "analyzed-by", "approved-by", "assisted-by", "based-on",
     "bisected-by", "caught-by", "cc", "checked-by", "co-developed-by",
     "fixed-by", "fixes", "found-by", "investigated-by", "link", "rebased-by",
     "reported-by", "reviewed-by", "sent-by", "signed-off-by", "sponsored-by",
     "submitted-by", "suggested-by", "tested-by", "triaged-by", "written-by"}

\* line.split(':').next(): the text before the first ':', or the whole line
meta_key(line) ==
    LET i == IndexOf(line, ":")
    IN  IF i = 0 THEN line ELSE SubSeq(line, 1, i - 1)

IsMetaLine(line) == to_ascii_lowercase(trim(meta_key(line))) \in META_KEYS

\* a body line counts as unwrapped above this length
WRAP_LENGTH == 80

\* #[derive(Default)] for MessageInfo
MessageInfoDefault ==
    [subject |-> None, break_after_subject |-> FALSE, body_len |-> 0,
     body_lines |-> 0, body_unwrapped_lines |-> 0, metadata_lines |-> 0]

\* the turn of the loop setting the break on every line after the subject
MessageInfoStepBreakOnAnyLine(info, n, line) ==
    IF n = 0 THEN [info EXCEPT !.subject = Some(line)]
    ELSE LET broken == [info EXCEPT !.break_after_subject = (line = "")]
         IN  IF IsMetaLine(line)
             THEN [broken EXCEPT !.metadata_lines = @ + 1]
             ELSE [broken EXCEPT
                       !.body_len = @ + Len(line),
                       !.body_lines = @ + 1,
                       !.body_unwrapped_lines =
                           IF Len(line) > WRAP_LENGTH THEN @ + 1 ELSE @]

\* the turn of the loop without the continue after a metadata line
MessageInfoStepNoContinue(info, n, line) ==
    IF n = 0 THEN [info EXCEPT !.subject = Some(line)]
    ELSE LET broken == IF n = 1 THEN [info EXCEPT !.break_after_subject = (line = "")]
                       ELSE info
             counted == IF IsMetaLine(line)
                        THEN [broken EXCEPT !.metadata_lines = @ + 1]
                        ELSE broken
         IN  [counted EXCEPT
                  !.body_len = @ + Len(line),
                  !.body_lines = @ + 1,
                  !.body_unwrapped_lines =
                      IF Len(line) > WRAP_LENGTH THEN @ + 1 ELSE @]

\* one turn of the loop of MessageInfo::new, on line number n (from 0)
MessageInfoStep(info, n, line) ==
    IF n = 0 THEN [info EXCEPT !.subject = Some(line)]
    ELSE LET broken == IF n = 1 THEN [info EXCEPT !.break_after_subject = (line = "")]
                       ELSE info
         IN  IF IsMetaLine(line)
             THEN [broken EXCEPT !.metadata_lines = @ + 1]
             ELSE [broken EXCEPT
                       !.body_len = @ + Len(line),
                       !.body_lines = @ + 1,
                       !.body_unwrapped_lines =
                           IF Len(line) > WRAP_LENGTH THEN @ + 1 ELSE @]

RECURSIVE MessageInfoLoop(_, _)
\* the state of the loop of MessageInfo::new after the first k lines
MessageInfoLoop(ls, k) ==
    IF k = 0 THEN MessageInfoDefault
    ELSE MessageInfoStep(MessageInfoLoop(ls, k - 1), k - 1, ls[k])

\* MessageInfo::new
MessageInfoNew(raw_message) ==
    LET ls == lines(raw_message) IN MessageInfoLoop(ls, Len(ls))

----------------------------------------------------------------------------
(* commit/class.rs: CommitClass and the classifier *)

CommitClass == {"MergeCommit", "InitialCommit", "ShortCommit", "RefactorCommit"}

SHORT_COMMIT_LENGTH == 25

\* REFACTOR_COMMIT_ALLOWED_DIFF = 0.05, in hundredths
REFACTOR_COMMIT_ALLOWED_DIFF == 5

\* DiffInfo::new
DiffInfoNew(insertions, deletions) ==
    [insertions |-> insertions, deletions |-> deletions,
     diff_total |-> insertions + deletions]

Abs(n) == IF n < 0 THEN -n ELSE n

\* \w of the regex, on ASCII text
IsWordChar(c) ==
    \/ \E i \in 1..26 : c \in {Uppers[i], Lowers[i]}
    \/ c \in Digits
    \/ c = "_"

\* \b of the regex at the position after the first i characters of s
WordBoundary(s, i) ==
    LET before == i >= 1 /\ i <= Len(s) /\ IsWordChar(CharAt(s, i))
        after  == i + 1 >= 1 /\ i + 1 <= Len(s) /\ IsWordChar(CharAt(s, i + 1))
    IN  before # after

\* (?i) literal: the word read at position i + 1 of s, whatever its case
LiteralAt(s, i, word) ==
    /\ i + Len(word) <= Len(s)
    /\ to_ascii_lowercase(SubSeq(s, i + 1, i + Len(word))) = word

\* \b<stem>d?\b with the closing \b left out
StemMatchNoClosingBoundary(s, stem) ==
    \E i \in 0..Len(s) :
        /\ WordBoundary(s, i)
        /\ LiteralAt(s, i, stem)

\* \b<stem>d?\b matching somewhere in s
StemMatch(s, stem) ==
    \E i \in 0..Len(s) :
        /\ WordBoundary(s, i)
        /\ LiteralAt(s, i, stem)
        /\ \/ WordBoundary(s, i + Len(stem))
           \/ /\ LiteralAt(s, i + Len(stem), "d")
              /\ WordBoundary(s, i + Len(stem) + 1)

\* Regex::new(r#"(?i)(\bmoved?\b)|(\brenamed?\b)"#).is_match(subject)
regex_is_match(subject) == StemMatch(subject, "move") \/ StemMatch(subject, "rename")

\* actual_diff <= allowed_diff, with allowed_diff the product truncated
DiffAllowed(diff_info) ==
    LET allowed_diff == (diff_info.diff_total * REFACTOR_COMMIT_ALLOWED_DIFF) \div 100
        actual_diff  == Abs(diff_info.deletions - diff_info.insertions)
    IN  actual_diff <= allowed_diff

\* the initial test with every commit of at most one parent taken as initial
IsInitialUpToOne(metadata) == metadata.parents <= 1

\* metadata.parents() == 0
IsInitial(metadata) == metadata.parents = 0

\* the short test with the limit one line lower
IsShortBelowLimit(diff_info) == diff_info.diff_total < SHORT_COMMIT_LENGTH - 1

\* the short test with the limit included
IsShortInclusive(diff_info) == diff_info.diff_total <= SHORT_COMMIT_LENGTH

\* diff_info.diff_total() < SHORT_COMMIT_LENGTH
IsShort(diff_info) == diff_info.diff_total < SHORT_COMMIT_LENGTH

\* do_classify_commit
do_classify_commit(metadata, diff_info, msg_info) ==
    (IF IsInitial(metadata) THEN {"InitialCommit"} ELSE {})
    \cup (IF IsShort(diff_info) THEN {"ShortCommit"} ELSE {})
    \cup (IF /\ DiffAllowed(diff_info)
             /\ msg_info.subject # None
             /\ regex_is_match(msg_info.subject[1])
          THEN {"RefactorCommit"} ELSE {})

----------------------------------------------------------------------------
(* commit/metadata.rs, commit/commit.rs and git.rs: CommitInfo *)

\* CommitMetadata::new
CommitMetadataNew(id, author, parents) ==
    [id |-> id, author |-> author, parents |-> parents]

\* CommitInfo::new
CommitInfoNew(metadata, diff_info, msg_info) ==
    [metadata |-> metadata, diff_info |-> Some(diff_info), msg_info |-> msg_info,
     classes |-> do_classify_commit(metadata, diff_info, msg_info)]

\* CommitInfo::new_from_merge
CommitInfoNewFromMerge(metadata, msg_info) ==
    [metadata |-> metadata, diff_info |-> None, msg_info |-> msg_info,
     classes |-> {"MergeCommit"}]

\* the merge test of parse taking a commit as a merge from one parent on
IsMergeFromOneParent(metadata) == metadata.parents >= 1

\* self.metadata.parents() >= 2
IsMerge(metadata) == metadata.parents >= 2

\* GitRepositoryItem::parse; the message is None when it is not UTF-8
parse(it) ==
    LET msg_info == IF it.message = None THEN MessageInfoDefault
                    ELSE MessageInfoNew(it.message[1])
    IN  IF IsMerge(it.metadata)
        THEN CommitInfoNewFromMerge(it.metadata, msg_info)
        ELSE CommitInfoNew(it.metadata, DiffInfoNew(it.insertions, it.deletions),
                           msg_info)

----------------------------------------------------------------------------
(* f32 values as exact fractions <<num, den>> with den > 0; NaN is <<0, 0>> *)

RECURSIVE Gcd(_, _)
Gcd(a, b) == IF b = 0 THEN a ELSE Gcd(b, a % b)

NaN == <<0, 0>>

IsNaN(a) == a[2] = 0

Frac(n, d) == LET g == Gcd(Abs(n), d) IN <<n \div g, d \div g>>

FAdd(a, b) ==
    IF IsNaN(a) \/ IsNaN(b) THEN NaN
    ELSE Frac(a[1] * b[2] + b[1] * a[2], a[2] * b[2])

FMul(a, b) ==
    IF IsNaN(a) \/ IsNaN(b) THEN NaN
    ELSE Frac(a[1] * b[1], a[2] * b[2])

\* a > b of f32: false when either side is NaN
FGt(a, b) == ~IsNaN(a) /\ ~IsNaN(b) /\ a[1] * b[2] > b[1] * a[2]

RECURSIVE FloorLog2(_)
FloorLog2(n) == IF n < 2 THEN 0 ELSE 1 + FloorLog2(n \div 2)

RECURSIVE Log2Fraction(_, _)
\* the binary digits j..10 of log2 of the mantissa m / 1024, by squaring
Log2Fraction(m, j) ==
    IF j > 10 THEN 0
    ELSE LET sq == (m * m) \div 1024
         IN  IF sq >= 2048
             THEN 2 ^ (10 - j) + Log2Fraction(sq \div 2, j + 1)
             ELSE Log2Fraction(sq, j + 1)

\* f32::ln of an integer n >= 1, in units of ln(2) / 1024, truncated
ln(n) ==
    LET e == FloorLog2(n)
    IN  e * 1024 + Log2Fraction((n * 1024) \div (2 ^ e), 1)

----------------------------------------------------------------------------
(* scoring/rule.rs: the rules *)

SPECIAL_CLASSES == {"ShortCommit", "RefactorCommit", "InitialCommit"}

\* commit_is_special
commit_is_special(c) == (c.classes \cap SPECIAL_CLASSES) # {}

RECURSIVE split_ascii_whitespace_count(_)
\* subject.split_ascii_whitespace().count()
split_ascii_whitespace_count(s) ==
    IF s = "" THEN 0
    ELSE IF CharAt(s, 1) \in WhiteSpace THEN split_ascii_whitespace_count(Tail(s))
    ELSE LET stop == IF \E i \in 1..Len(s) : CharAt(s, i) \in WhiteSpace
                     THEN CHOOSE i \in 1..Len(s) :
                              /\ CharAt(s, i) \in WhiteSpace
                              /\ \A j \in 1..(i - 1) : CharAt(s, j) \notin WhiteSpace
                     ELSE Len(s) + 1
         IN  1 + split_ascii_whitespace_count(SubSeq(s, stop, Len(s)))

\* SubjectRule::score with the descending branch starting at 70 characters
SubjectRuleDecayFrom70(c) ==
    IF "InitialCommit" \in c.classes THEN <<1, 1>>
    ELSE LET subject == IF c.msg_info.subject = None THEN ""
                        ELSE c.msg_info.subject[1]
             len == Len(subject)
         IN  IF split_ascii_whitespace_count(subject) <= 1 THEN <<0, 1>>
             ELSE CASE len <= 10 -> <<0, 1>>
                    [] len \in 11..20 -> Frac(len - 10, 10)
                    [] len \in 21..69 -> <<1, 1>>
                    [] len \in 70..100 -> Frac(100 - len, 100)
                    [] OTHER -> <<0, 1>>

\* SubjectRule::score
SubjectRule(c) ==
    IF "InitialCommit" \in c.classes THEN <<1, 1>>
    ELSE LET subject == IF c.msg_info.subject = None THEN ""
                        ELSE c.msg_info.subject[1]
             len == Len(subject)
         IN  IF split_ascii_whitespace_count(subject) <= 1 THEN <<0, 1>>
             ELSE CASE len <= 10 -> <<0, 1>>
                    [] len \in 11..20 -> Frac(len - 10, 10)
                    [] len \in 21..70 -> <<1, 1>>
                    [] len \in 71..100 -> Frac(100 - len, 100)
                    [] OTHER -> <<0, 1>>

\* BodyPresenceRule::score with no exemption for the special commits
BodyPresenceRuleNoExemption(c) ==
    IF c.msg_info.body_len > 0 THEN <<1, 1>> ELSE <<0, 1>>

\* BodyPresenceRule::score
BodyPresenceRule(c) ==
    IF c.msg_info.body_len > 0 \/ commit_is_special(c) THEN <<1, 1>> ELSE <<0, 1>>

\* SubjectBodyBreakRule::score with the special commits excused first
SubjectBodyBreakRuleSpecialFirst(c) ==
    IF commit_is_special(c) THEN <<1, 1>>
    ELSE IF c.msg_info.body_len > 0 /\ c.msg_info.break_after_subject
         THEN <<1, 1>> ELSE <<0, 1>>

\* SubjectBodyBreakRule::score
SubjectBodyBreakRule(c) ==
    IF c.msg_info.body_len > 0
    THEN IF c.msg_info.break_after_subject THEN <<1, 1>> ELSE <<0, 1>>
    ELSE IF commit_is_special(c) THEN <<1, 1>> ELSE <<0, 1>>

\* BodyLenRule::score without the early return for the special commits
BodyLenRuleSpecialPenalized(c) ==
    IF c.diff_info = None THEN <<1, 1>>
    ELSE LET diff_size == c.diff_info[1].diff_total
             body_len  == c.msg_info.body_len
         IN  CASE diff_size = 0 -> <<0, 1>>
               [] diff_size = 1 -> IF body_len = 0 THEN NaN ELSE <<1, 1>>
               [] OTHER ->
                    LET score == Frac(ln(body_len + 1), ln(diff_size))
                    IN  IF FGt(score, <<1, 1>>) THEN <<1, 1>> ELSE score

\* BodyLenRule::score; ln(0) is -inf and ln(1) is 0, so a diff of no line
\* gives -0.0 and a diff of one line gives NaN (0/0) or 1.0 (clamped +inf)
BodyLenRule(c) ==
    IF commit_is_special(c) THEN <<1, 1>>
    ELSE IF c.diff_info = None THEN <<1, 1>>
    ELSE LET diff_size == c.diff_info[1].diff_total
             body_len  == c.msg_info.body_len
         IN  CASE diff_size = 0 -> <<0, 1>>
               [] diff_size = 1 -> IF body_len = 0 THEN NaN ELSE <<1, 1>>
               [] OTHER ->
                    LET score == Frac(ln(body_len + 1), ln(diff_size))
                    IN  IF FGt(score, <<1, 1>>) THEN <<1, 1>> ELSE score

\* BodyLenRule::score gets past its two early returns
BodyLenRuleReachesFormula(c) == ~commit_is_special(c) /\ c.diff_info # None

\* BodyWrappingRule::score with no exemption for the special commits
BodyWrappingRuleNoExemption(c) ==
    LET body_lines == c.msg_info.body_lines
    IN  IF body_lines = 0 THEN <<0, 1>>
        ELSE Frac(body_lines - c.msg_info.body_unwrapped_lines, body_lines)

\* BodyWrappingRule::score
BodyWrappingRule(c) ==
    LET body_lines == c.msg_info.body_lines
    IN  IF body_lines = 0
        THEN IF commit_is_special(c) THEN <<1, 1>> ELSE <<0, 1>>
        ELSE Frac(body_lines - c.msg_info.body_unwrapped_lines, body_lines)

\* MetadataLinesRule::score
MetadataLinesRule(c) ==
    CASE c.msg_info.metadata_lines = 0 -> <<0, 1>>
      [] c.msg_info.metadata_lines = 1 -> Frac(6, 10)
      [] c.msg_info.metadata_lines = 2 -> Frac(8, 10)
      [] OTHER -> <<1, 1>>

\* item.rule.score(commit), by the name of the rule
RuleScore(rule, c) ==
    CASE rule = "SubjectRule" -> SubjectRule(c)
      [] rule = "BodyPresenceRule" -> BodyPresenceRule(c)
      [] rule = "SubjectBodyBreakRule" -> SubjectBodyBreakRule(c)
      [] rule = "BodyLenRule" -> BodyLenRule(c)
      [] rule = "BodyWrappingRule" -> BodyWrappingRule(c)
      [] rule = "MetadataLinesRule" -> MetadataLinesRule(c)

----------------------------------------------------------------------------
(* scoring/scorer.rs and main.rs: the scorer *)

\* ScorerItem
ScorerItem(rule, weight) == [rule |-> rule, weight |-> weight]

\* init_scorer with the weight of BodyLenRule lowered to 0.2
init_scorer_light_body_len ==
    << ScorerItem("SubjectRule", Frac(30, 100)),
       ScorerItem("BodyPresenceRule", Frac(10, 100)),
       ScorerItem("SubjectBodyBreakRule", Frac(10, 100)),
       ScorerItem("BodyLenRule", Frac(20, 100)),
       ScorerItem("BodyWrappingRule", Frac(25, 100)),
       ScorerItem("MetadataLinesRule", Frac(5, 100)) >>

\* init_scorer: the rules of the scorer and their weights
init_scorer ==
    << ScorerItem("SubjectRule", Frac(30, 100)),
       ScorerItem("BodyPresenceRule", Frac(10, 100)),
       ScorerItem("SubjectBodyBreakRule", Frac(10, 100)),
       ScorerItem("BodyLenRule", Frac(25, 100)),
       ScorerItem("BodyWrappingRule", Frac(25, 100)),
       ScorerItem("MetadataLinesRule", Frac(5, 100)) >>

RECURSIVE score_accum(_, _, _)
\* score_accum after the first k rules:
\* score_accum += 100.0 * item.rule.score(commit) * item.weight
score_accum(rules, c, k) ==
    IF k = 0 THEN <<0, 1>>
    ELSE FAdd(score_accum(rules, c, k - 1),
              FMul(FMul(<<100, 1>>, RuleScore(rules[k].rule, c)), rules[k].weight))

\* f32::round() as u8: to the nearest integer, halves away from zero; the
\* cast saturates and takes NaN to 0
round_as_u8(a) ==
    IF IsNaN(a) \/ a[1] < 0 THEN 0
    ELSE LET r == (2 * a[1] + a[2]) \div (2 * a[2])
         IN  IF r > 255 THEN 255 ELSE r

\* the score without the test against 100.0
score_of_accum_unclamped(a) == round_as_u8(a)

\* if score_accum > 100.0 { 100 } else { score_accum.round() as u8 }
score_of_accum(a) == IF FGt(a, <<100, 1>>) THEN 100 ELSE round_as_u8(a)

\* the grade match with the A arm starting one point late
grade_of_score_late_a(score) ==
    CASE score \in 0..19 -> "F"
      [] score \in 20..39 -> "D"
      [] score \in 40..59 -> "C"
      [] score \in 60..80 -> "B"
      [] OTHER -> "A"

\* let grade = match score { 0..=19 => F, ... , _ => A }
grade_of_score(score) ==
    CASE score \in 0..19 -> "F"
      [] score \in 20..39 -> "D"
      [] score \in 40..59 -> "C"
      [] score \in 60..79 -> "B"
      [] OTHER -> "A"

Ignored == [tag |-> "Ignored"]

Scored(score, grade) == [tag |-> "Scored", score |-> score, grade |-> grade]

\* the merge test of the scorer looking for the wrong class
is_merge_class_initial(c) == "InitialCommit" \in c.classes

\* commit.classes().as_set().contains(CommitClass::MergeCommit)
is_merge_class(c) == "MergeCommit" \in c.classes

\* Scorer::score_internal
score_internal(rules, c) ==
    IF is_merge_class(c) THEN Ignored
    ELSE LET score == score_of_accum(score_accum(rules, c, Len(rules)))
         IN  Scored(score, grade_of_score(score))

\* the rules whose score() has been called by score_internal, in order
rules_called(rules, c) ==
    IF is_merge_class(c) THEN <<>>
    ELSE [k \in 1..Len(rules) |-> rules[k].rule]

----------------------------------------------------------------------------
(* filter.rs: the filters and FilterChain; scorer.rs: ScoredCommit *)

\* struct ScoredCommit { commit, score }
ScoredCommitNew(c, score) == [commit |-> c, score |-> score]

\* AuthorPreFilter::new
AuthorPreFilterNew(author) == [kind |-> "AuthorPreFilter", author |-> author]

\* struct MergePreFilter
MergePreFilter == [kind |-> "MergePreFilter"]

\* GradePostFilter::new
GradePostFilterNew(self) == [kind |-> "GradePostFilter", spec |-> self]

\* impl Filter for AuthorPreFilter
AuthorPreFilterAccept(self, metadata) == self.author = metadata.author

\* MergePreFilter::accept letting the commits of two parents through
MergePreFilterAcceptUpToTwo(self, metadata) == metadata.parents <= 2

\* impl Filter for MergePreFilter
MergePreFilterAccept(self, metadata) == metadata.parents <= 1

\* GradePostFilter::accept rejecting the Ignored score
GradePostFilterAcceptScoredOnly(self, sc) ==
    IF sc.score = Ignored THEN FALSE
    ELSE matches(self.spec, sc.score.grade)

\* impl Filter for GradePostFilter
GradePostFilterAccept(self, sc) ==
    IF sc.score = Ignored THEN TRUE
    ELSE matches(self.spec, sc.score.grade)

\* Filter::accept, by the type of the filter
FilterAccept(filter, descriptor) ==
    CASE filter.kind = "AuthorPreFilter" -> AuthorPreFilterAccept(filter, descriptor)
      [] filter.kind = "MergePreFilter" -> MergePreFilterAccept(filter, descriptor)
      [] filter.kind = "GradePostFilter" -> GradePostFilterAccept(filter, descriptor)

\* FilterChain::new
FilterChainNew(filters) == filters

RECURSIVE FilterChainLoopAny(_, _)
\* the loop of FilterChain::accept returning at the first filter that accepts
FilterChainLoopAny(filters, descriptor) ==
    IF filters = <<>> THEN [accepted |-> FALSE, consulted |-> <<>>]
    ELSE IF FilterAccept(Head(filters), descriptor)
         THEN [accepted |-> TRUE, consulted |-> <<Head(filters)>>]
         ELSE LET rest == FilterChainLoopAny(Tail(filters), descriptor)
              IN  [accepted |-> rest.accepted,
                   consulted |-> <<Head(filters)>> \o rest.consulted]

RECURSIVE FilterChainLoop(_, _)
\* the loop of FilterChain::accept: its result and the filters it has called
FilterChainLoop(filters, descriptor) ==
    IF filters = <<>> THEN [accepted |-> TRUE, consulted |-> <<>>]
    ELSE IF ~FilterAccept(Head(filters), descriptor)
         THEN [accepted |-> FALSE, consulted |-> <<Head(filters)>>]
         ELSE LET rest == FilterChainLoop(Tail(filters), descriptor)
              IN  [accepted |-> rest.accepted,
                   consulted |-> <<Head(filters)>> \o rest.consulted]

\* FilterChain::accept
FilterChainAccept(chain, descriptor) == FilterChainLoop(chain, descriptor).accepted

----------------------------------------------------------------------------
(* main.rs and git.rs: the run, one commit at a time *)

MaxParents == 3

MaxSubjectLen == 101

RECURSIVE Pad(_, _)
\* s filled with 'x' up to n characters
Pad(s, n) == IF Len(s) >= n THEN s ELSE Pad(s \o "x", n)

ItemSubjects ==
    { "", "Fix", "Initial commit", "Fix bug in the parser of grades",
      "Move Snowden to Russia", "ABC-1234567890" }
    \cup { Pad("Fix bug ", n) : n \in {10, 11, 15, 20, 21, 70, 71, 85, 95, 100} }
    \cup { Pad("Fix bug ", MaxSubjectLen) }

Trailer == "Signed-off-by: A <a@x.com>"

\* the lines after the subject
ItemBodies ==
    { <<>>,
      <<"", "Body text here.">>,
      <<"Body without a break.">>,
      <<"", Pad("long ", 81)>>,
      <<"", Pad("wrapped ", 80), Pad("long ", 90)>>,
      <<"", "One.", Pad("long ", 81), "Three.", Trailer>>,
      <<"", Trailer>>,
      <<"", Trailer, "Cc: b">>,
      <<"", "Why and how.", "", "Reviewed-by: B", "Cc: c", "Tested-by: D">>,
      <<"", Pad("Explained at length ", 70), Pad("over several lines ", 70),
        Pad("of text ", 70), Trailer>> }

RECURSIVE JoinLines(_)
\* every line followed by a line feed
JoinLines(ls) == IF ls = <<>> THEN "" ELSE ls[1] \o "\n" \o JoinLines(Tail(ls))

\* commit.message(): None when the message is not UTF-8
ItemMessages ==
    { None, Some("") }
    \cup { Some(JoinLines(<<subject>> \o body)) :
             subject \in ItemSubjects, body \in ItemBodies }
    \cup { Some("Fix bug\n\nSigned-off-by: A <a@x.com>") }

\* (insertions, deletions) of diff.stats()
ItemDiffs ==
    { <<0, 0>>, <<1, 0>>, <<12, 12>>, <<12, 13>>, <<20, 30>>, <<50, 52>>,
      <<10, 500>>, <<300, 100>> }

\* the commits of the first author, and a few of another author
Items ==
    { [metadata |-> CommitMetadataNew("9335a4d", "Leeroy Jenkins", p),
       message |-> m, insertions |-> d[1], deletions |-> d[2]] :
        p \in 0..MaxParents, m \in ItemMessages, d \in ItemDiffs }
    \cup
    { [metadata |-> CommitMetadataNew("3d1f8a0", "Chuck Norris", p),
       message |-> Some("Fix bug in the parser of grades\n"),
       insertions |-> 50, deletions |-> 52] : p \in 0..MaxParents }

\* a traversal of one commit, for each commit of Items
Traversals == { <<it>> : it \in Items }

MaxCommits == 1

\* the ArgMatches of some command lines: --author, --merges, --grades,
\* --number
RunArgs ==
    { [author |-> None, merges |-> 0, grades |-> None, number |-> None],
      [author |-> None, merges |-> 1, grades |-> None, number |-> None],
      [author |-> Some("Leeroy Jenkins"), merges |-> 0, grades |-> Some("B+"),
       number |-> Some(MaxCommits)],
      [author |-> None, merges |-> 1, grades |-> Some("c-"),
       number |-> Some(MaxCommits)],
      [author |-> Some("Chuck Norris"), merges |-> 1, grades |-> None,
       number |-> Some(0)] }

\* create_pre_filters
create_pre_filters(args) ==
    FilterChainNew(
        (IF args.author # None
         THEN <<AuthorPreFilterNew(args.author[1])>> ELSE <<>>)
        \o (IF args.merges = 0 THEN <<MergePreFilter>> ELSE <<>>))

\* create_post_filters; the validator of --grades has parsed the text before
create_post_filters(args) ==
    FilterChainNew(
        IF args.grades # None
        THEN <<GradePostFilterNew(from_str(args.grades[1]).value)>>
        ELSE <<>>)

\* read_commits_number
read_commits_number(args) == args.number

\* read_config
read_config(args) ==
    [pre_filters  |-> create_pre_filters(args),
     post_filters |-> create_post_filters(args),
     max_commits  |-> read_commits_number(args)]

\* main before its loop: the configuration is read, nothing is printed yet
Init ==
    /\ pc = "next"
    /\ arg \in RunArgs
    /\ spec = None
    /\ item = None
    /\ commit = None
    /\ classes = {}
    /\ scored = None
    /\ called = <<>>
    /\ config = read_config(arg)
    /\ commit_num = 0
    /\ grade_arg = None
    /\ accepted = None
    /\ consulted = <<>>
    /\ message_info = None
    /\ ordering = None
    /\ traversal \in Traversals
    /\ position = 0
    /\ emitted = <<>>
    /\ worked = <<>>

\* the limit test one commit late
LimitReachedOneLate ==
    config.max_commits # None /\ commit_num = config.max_commits[1] + 1

\* commit_num == max_commits; without --number the limit is u32::MAX, which
\* commit_num does not reach within the traversals drawn
LimitReached ==
    config.max_commits # None /\ commit_num = config.max_commits[1]

\* GitTraversal::next giving the first commit of the traversal again
TraversalNextFirstAgain ==
    /\ pc = "next"
    /\ position < Len(traversal)
    /\ ~LimitReached
    /\ item' = traversal[1]
    /\ position' = position + 1
    /\ worked' = Append(worked, <<position', "next">>)
    /\ pc' = "pre_filter"
    /\ UNCHANGED <<arg, spec, commit, classes, scored, called, config,
                   commit_num, grade_arg, accepted, consulted, message_info,
                   ordering, traversal, emitted>>

\* GitTraversal::next giving a commit, below the limit
TraversalNext ==
    /\ pc = "next"
    /\ position < Len(traversal)
    /\ ~LimitReached
    /\ item' = traversal[position + 1]
    /\ position' = position + 1
    /\ worked' = Append(worked, <<position', "next">>)
    /\ pc' = "pre_filter"
    /\ UNCHANGED <<arg, spec, commit, classes, scored, called, config,
                   commit_num, grade_arg, accepted, consulted, message_info,
                   ordering, traversal, emitted>>

\* GitTraversal::next giving a commit at the limit: the loop of main breaks
\* and the commit is left alone
LimitBreak ==
    /\ pc = "next"
    /\ position < Len(traversal)
    /\ LimitReached
    /\ pc' = "done"
    /\ UNCHANGED <<arg, spec, item, commit, classes, scored, called, config,
                   commit_num, grade_arg, accepted, consulted, message_info,
                   ordering, traversal, position, emitted, worked>>

\* GitTraversal::next giving None: the loop of main ends
TraversalEnd ==
    /\ pc = "next"
    /\ position = Len(traversal)
    /\ pc' = "done"
    /\ UNCHANGED <<arg, spec, item, commit, classes, scored, called, config,
                   commit_num, grade_arg, accepted, consulted, message_info,
                   ordering, traversal, position, emitted, worked>>

\* the pre-filters consulted and their verdict ignored
PreFilterIgnored ==
    /\ pc = "pre_filter"
    /\ accepted' = FilterChainAccept(config.pre_filters, item.metadata)
    /\ consulted' = FilterChainLoop(config.pre_filters, item.metadata).consulted
    /\ worked' = Append(worked, <<position, "pre_filter">>)
    /\ pc' = "parse"
    /\ UNCHANGED <<arg, spec, item, commit, classes, scored, called, config,
                   commit_num, grade_arg, message_info, ordering, traversal,
                   position, emitted>>

\* the pre-filters on the metadata of the item; a rejected item is skipped
PreFilter ==
    /\ pc = "pre_filter"
    /\ accepted' = FilterChainAccept(config.pre_filters, item.metadata)
    /\ consulted' = FilterChainLoop(config.pre_filters, item.metadata).consulted
    /\ worked' = Append(worked, <<position, "pre_filter">>)
    /\ pc' = IF accepted' THEN "parse" ELSE "rejected"
    /\ UNCHANGED <<arg, spec, item, commit, classes, scored, called, config,
                   commit_num, grade_arg, message_info, ordering, traversal,
                   position, emitted>>

\* GitRepositoryItem::parse
Parse ==
    /\ pc = "parse"
    /\ commit' = parse(item)
    /\ worked' = Append(worked, <<position, "parse">>)
    /\ pc' = "score"
    /\ UNCHANGED <<arg, spec, item, classes, scored, called, config,
                   commit_num, grade_arg, accepted, consulted, message_info,
                   ordering, traversal, position, emitted>>

\* Scorer::score
Score ==
    /\ pc = "score"
    /\ scored' = score_internal(init_scorer, commit)
    /\ called' = rules_called(init_scorer, commit)
    /\ worked' = Append(worked, <<position, "score">>)
    /\ pc' = "post_filter"
    /\ UNCHANGED <<arg, spec, item, commit, classes, config, commit_num,
                   grade_arg, accepted, consulted, message_info, ordering,
                   traversal, position, emitted>>

\* the post-filters on the scored commit; a rejected commit is not printed
PostFilter ==
    /\ pc = "post_filter"
    /\ LET sc == ScoredCommitNew(commit, scored)
       IN  /\ accepted' = FilterChainAccept(config.post_filters, sc)
           /\ consulted' = FilterChainLoop(config.post_filters, sc).consulted
    /\ worked' = Append(worked, <<position, "post_filter">>)
    /\ pc' = IF accepted' THEN "print" ELSE "rejected"
    /\ UNCHANGED <<arg, spec, item, commit, classes, scored, called, config,
                   commit_num, grade_arg, message_info, ordering, traversal,
                   position, emitted>>

\* continue: the values of the turn are dropped, commit_num stays
Continue ==
    /\ pc = "rejected"
    /\ item' = None
    /\ commit' = None
    /\ scored' = None
    /\ called' = <<>>
    /\ accepted' = None
    /\ consulted' = <<>>
    /\ worked' = Append(worked, <<position, "continue">>)
    /\ pc' = "next"
    /\ UNCHANGED <<arg, spec, classes, config, commit_num, grade_arg,
                   message_info, ordering, traversal, position, emitted>>

\* Printer::print_commit and commit_num += 1; the values of the turn are
\* dropped
PrintCommit ==
    /\ pc = "print"
    /\ emitted' = Append(emitted, [index |-> position, commit |-> commit,
                                   score |-> scored])
    /\ commit_num' = commit_num + 1
    /\ item' = None
    /\ commit' = None
    /\ scored' = None
    /\ called' = <<>>
    /\ accepted' = None
    /\ consulted' = <<>>
    /\ worked' = Append(worked, <<position, "print">>)
    /\ pc' = "next"
    /\ UNCHANGED <<arg, spec, classes, config, grade_arg, message_info,
                   ordering, traversal, position>>

Next ==
    \/ TraversalNext
    \/ LimitBreak
    \/ TraversalEnd
    \/ PreFilter
    \/ Parse
    \/ Score
    \/ PostFilter
    \/ Continue
    \/ PrintCommit

Spec == Init /\ [][Next]_vars

----------------------------------------------------------------------------
(* main.rs: the loop of main over a traversal of several commits *)

MaxTraversal == 3

\* a commit of a good message, one of a poor message, a merge and a commit
\* of another author
RunItems ==
    { [metadata |-> CommitMetadataNew("9335a4d", "Leeroy Jenkins", 1),
       message |-> Some(JoinLines(<<"Fix bug in the parser of grades", "",
                                    "Why and how.", "", "Reviewed-by: B",
                                    "Cc: c", "Tested-by: D">>)),
       insertions |-> 12, deletions |-> 12],
      [metadata |-> CommitMetadataNew("0b5e6f1", "Leeroy Jenkins", 1),
       message |-> Some("Fix\n"), insertions |-> 50, deletions |-> 52],
      [metadata |-> CommitMetadataNew("7c2d9e4", "Leeroy Jenkins", 2),
       message |-> Some("Merge branch 'grades'\n"),
       insertions |-> 0, deletions |-> 0],
      [metadata |-> CommitMetadataNew("3d1f8a0", "Chuck Norris", 1),
       message |-> Some("Fix bug in the parser of grades\n"),
       insertions |-> 50, deletions |-> 52] }

\* the traversals of up to MaxTraversal commits of RunItems
RunTraversals == UNION { [1..n -> RunItems] : n \in 0..MaxTraversal }

\* main before its loop, over one of the traversals
InitRun ==
    /\ pc = "next"
    /\ arg \in RunArgs
    /\ spec = None
    /\ item = None
    /\ commit = None
    /\ classes = {}
    /\ scored = None
    /\ called = <<>>
    /\ config = read_config(arg)
    /\ commit_num = 0
    /\ grade_arg = None
    /\ accepted = None
    /\ consulted = <<>>
    /\ message_info = None
    /\ ordering = None
    /\ traversal \in RunTraversals
    /\ position = 0
    /\ emitted = <<>>
    /\ worked = <<>>

SpecRun == InitRun /\ [][Next]_vars

----------------------------------------------------------------------------
(* The classifier on its own: do_classify_commit applied to drawn inputs *)

MaxLines == 13

ClassifyMetadata ==
    { CommitMetadataNew("9335a4d", "Leeroy Jenkins", p) : p \in 0..MaxParents }

ClassifyDiffs ==
    { DiffInfoNew(i, d) : i \in 0..MaxLines, d \in 0..MaxLines }
    \cup { DiffInfoNew(50, 52), DiffInfoNew(10, 500), DiffInfoNew(42, 42),
           DiffInfoNew(53, 102), DiffInfoNew(19, 21), DiffInfoNew(19, 22) }

ClassifySubjects ==
    { before \o stem \o after :
        before \in {"", "I ", "re", "_", "re-"},
        stem \in {"move", "moved", "rename", "renamed", "MoVe", "RENAMED", "mov"},
        after \in {"", " it", "ment", "d", "_x", "."} }
    \cup { "", "Just for lulz bro", "Improve character movement rendering",
           "Move Snowden to Russia", "Rename C# to Java" }

ClassifyMessages == {""} \cup { subject \o "\n" : subject \in ClassifySubjects }

InitClassify ==
    /\ pc = "classify"
    /\ arg = ""
    /\ spec = None
    /\ \E metadata \in ClassifyMetadata, diff_info \in ClassifyDiffs,
          message \in ClassifyMessages :
           item = [metadata |-> metadata, diff_info |-> diff_info,
                   msg_info |-> MessageInfoNew(message)]
    /\ commit = None
    /\ classes = {}
    /\ scored = None
    /\ called = <<>>
    /\ config = None
    /\ commit_num = 0
    /\ grade_arg = None
    /\ accepted = None
    /\ consulted = <<>>
    /\ message_info = None
    /\ ordering = None
    /\ traversal = <<>>
    /\ position = 0
    /\ emitted = <<>>
    /\ worked = <<>>

\* CommitClasses::classify_commit
Classify ==
    /\ pc = "classify"
    /\ classes' = do_classify_commit(item.metadata, item.diff_info, item.msg_info)
    /\ pc' = "classified"
    /\ UNCHANGED <<arg, spec, item, commit, scored, called,
                 config, commit_num, grade_arg, accepted, consulted,
                 message_info, ordering,
                   traversal, position, emitted, worked>>

NextClassify == Classify

SpecClassify == InitClassify /\ [][NextClassify]_vars

----------------------------------------------------------------------------
(* config.rs: the --grades argument goes through GradeSpec::from_str *)

MaxSpecLen == 3

GradeAlphabet ==
    {"A", "B", "C", "D", "F", "a", "b", "c", "d", "f", "+", "-", "x", "!"}

GradeTexts == Strings(GradeAlphabet, MaxSpecLen) \cup {"Abyrvalg!", "C++", "c+-x"}

InitGrade ==
    /\ pc = "read_config"
    /\ arg \in GradeTexts
    /\ spec = None
    /\ item = None
    /\ commit = None
    /\ classes = {}
    /\ scored = None
    /\ called = <<>>
    /\ config = None
    /\ commit_num = 0
    /\ grade_arg = None
    /\ accepted = None
    /\ consulted = <<>>
    /\ message_info = None
    /\ ordering = None
    /\ traversal = <<>>
    /\ position = 0
    /\ emitted = <<>>
    /\ worked = <<>>

\* create_post_filters / try_parse: grades.parse::<GradeSpec>()
ParseGrades ==
    /\ pc = "read_config"
    /\ spec' = from_str(arg)
    /\ pc' = IF spec'.ok THEN "configured" ELSE "exit"
    /\ UNCHANGED <<arg, item, commit, classes, scored, called,
                 config, commit_num, grade_arg, accepted, consulted,
                 message_info, ordering,
                   traversal, position, emitted, worked>>

\* GradePostFilter::accept handing the grade of a commit to spec.matches
Matches ==
    /\ pc = "configured"
    /\ \E g \in Grade :
           /\ grade_arg' = g
           /\ accepted' = matches(spec.value, g)
    /\ pc' = "matched"
    /\ UNCHANGED <<arg, spec, item, commit, classes, scored, called, config,
                   commit_num, consulted, message_info, ordering,
                   traversal, position, emitted, worked>>

NextGrade == ParseGrades \/ Matches

SpecGrade == InitGrade /\ [][NextGrade]_vars

----------------------------------------------------------------------------
(* The comparison of Grade on its own, as tests::grades_are_ordered_from_f_to_a
   uses it *)

InitOrder ==
    /\ pc = "compare"
    /\ arg = ""
    /\ spec = None
    /\ item \in [a : Grade, b : Grade, c : Grade]
    /\ commit = None
    /\ classes = {}
    /\ scored = None
    /\ called = <<>>
    /\ config = None
    /\ commit_num = 0
    /\ grade_arg = None
    /\ accepted = None
    /\ consulted = <<>>
    /\ message_info = None
    /\ ordering = None
    /\ traversal = <<>>
    /\ position = 0
    /\ emitted = <<>>
    /\ worked = <<>>

\* the operators < and > of Grade applied to the grades drawn
Compare ==
    /\ pc = "compare"
    /\ ordering' = [lt_aa |-> lt(item.a, item.a),
                    lt_ab |-> lt(item.a, item.b),
                    lt_ba |-> lt(item.b, item.a),
                    lt_bc |-> lt(item.b, item.c),
                    lt_ac |-> lt(item.a, item.c),
                    gt_ba |-> gt(item.b, item.a)]
    /\ pc' = "compared"
    /\ UNCHANGED <<arg, spec, item, commit, classes, scored, called, config,
                   commit_num, grade_arg, accepted, consulted, message_info,
                   traversal, position, emitted, worked>>

NextOrder == Compare

SpecOrder == InitOrder /\ [][NextOrder]_vars

----------------------------------------------------------------------------
(* FilterChain::accept on its own, for chains of pre-filters on the metadata
   of a commit and chains of post-filters on a scored commit *)

MaxChain == 3

FilterAuthors == {"Leeroy Jenkins", "Chuck Norris"}

\* the filters create_pre_filters can build
PreFilters == { AuthorPreFilterNew(a) : a \in FilterAuthors } \cup {MergePreFilter}

GradeSpecs == [grade : Grade, rel : Relation]

\* the filters create_post_filters can build
PostFilters == { GradePostFilterNew(self) : self \in GradeSpecs }

\* Vec<Box<dyn Filter>> of at most n filters
Chains(filters, n) == UNION { [1..k -> filters] : k \in 0..n }

PostChains ==
    { <<f>> : f \in PostFilters }
    \cup Chains({ GradePostFilterNew(self) :
                    self \in { [grade |-> "B", rel |-> "Ge"],
                               [grade |-> "C", rel |-> "Le"],
                               [grade |-> "D", rel |-> "Eq"] } }, MaxChain)

FilterMetadata ==
    { CommitMetadataNew("9335a4d", a, p) : a \in FilterAuthors, p \in 0..MaxParents }

\* the commits of one or two parents and a diff of 102 lines, scored
FilterScoredCommits ==
    { ScoredCommitNew(parse(it), score_internal(init_scorer, parse(it))) :
        it \in { i \in Items : /\ i.metadata.parents \in {1, 2}
                               /\ i.insertions = 50
                               /\ i.deletions = 52 } }

InitFilter ==
    /\ pc = "filter"
    /\ arg = ""
    /\ spec = None
    /\ \/ \E chain \in Chains(PreFilters, MaxChain), metadata \in FilterMetadata :
              item = [chain |-> FilterChainNew(chain), descriptor |-> metadata]
       \/ \E chain \in PostChains, sc \in FilterScoredCommits :
              item = [chain |-> FilterChainNew(chain), descriptor |-> sc]
    /\ commit = None
    /\ classes = {}
    /\ scored = None
    /\ called = <<>>
    /\ config = None
    /\ commit_num = 0
    /\ grade_arg = None
    /\ accepted = None
    /\ consulted = <<>>
    /\ message_info = None
    /\ ordering = None
    /\ traversal = <<>>
    /\ position = 0
    /\ emitted = <<>>
    /\ worked = <<>>

\* FilterChain::accept
ChainAccept ==
    /\ pc = "filter"
    /\ accepted' = FilterChainAccept(item.chain, item.descriptor)
    /\ consulted' = FilterChainLoop(item.chain, item.descriptor).consulted
    /\ pc' = "filtered"
    /\ UNCHANGED <<arg, spec, item, commit, classes, scored, called, config,
                   commit_num, grade_arg, message_info, ordering,
                   traversal, position, emitted, worked>>

NextFilter == ChainAccept

SpecFilter == InitFilter /\ [][NextFilter]_vars

----------------------------------------------------------------------------
(* MessageInfo::new on its own, applied to drawn messages *)

MaxBodyLines == 3

MessageSubjects == {"Fix bug", "Cc: me"}

\* lines 'Key: value' with a known key, in several spellings
TrailerLines ==
    {"Signed-off-by: A <a@x.com>", "Cc: b", "  REVIEWED-BY : c",
     "link:http://x.org/1"}

\* lines made of a known key alone, without ':'
BareKeyLines == {"Fixes", "cc"}

\* lines of text, of an unknown key, empty or blank
PlainLines ==
    {"", " ", "Body text.", "Note: see the ticket", Pad("wrapped ", 80),
     Pad("long ", 81)}

MessageLines == TrailerLines \cup BareKeyLines \cup PlainLines

RECURSIVE JoinWith(_, _)
\* the lines with eol between them
JoinWith(ls, eol) ==
    IF ls = <<>> THEN ""
    ELSE IF Len(ls) = 1 THEN ls[1]
    ELSE ls[1] \o eol \o JoinWith(Tail(ls), eol)

\* the subject and up to MaxBodyLines lines, ended or not by a line feed
MessageTexts ==
    {"", "\n", "\r\n"}
    \cup { JoinWith(<<subject>> \o body, "\n") \o last :
             subject \in MessageSubjects,
             body \in UNION { [1..k -> MessageLines] :
                                k \in 0..MaxBodyLines },
             last \in {"", "\n"} }
    \cup { JoinWith(<<subject>> \o body, "\r\n") :
             subject \in MessageSubjects,
             body \in UNION { [1..k -> {"", "Body text.", "Cc: b"}] :
                                k \in 0..MaxBodyLines } }

InitMessage ==
    /\ pc = "message"
    /\ arg = ""
    /\ spec = None
    /\ item \in { [raw_message |-> m] : m \in MessageTexts }
    /\ commit = None
    /\ classes = {}
    /\ scored = None
    /\ called = <<>>
    /\ config = None
    /\ commit_num = 0
    /\ grade_arg = None
    /\ accepted = None
    /\ consulted = <<>>
    /\ message_info = None
    /\ ordering = None
    /\ traversal = <<>>
    /\ position = 0
    /\ emitted = <<>>
    /\ worked = <<>>

\* MessageInfo::new
NewMessageInfo ==
    /\ pc = "message"
    /\ message_info' = MessageInfoNew(item.raw_message)
    /\ pc' = "message_parsed"
    /\ UNCHANGED <<arg, spec, item, commit, classes, scored, called, config,
                   commit_num, grade_arg, accepted, consulted, ordering,
                   traversal, position, emitted, worked>>

NextMessage == NewMessageInfo

SpecMessage == InitMessage /\ [][NextMessage]_vars

----------------------------------------------------------------------------
(* Claims on the scorer and on the parse step, under Spec *)

HasCommit == pc \in {"score", "post_filter", "print"}

HasScore == pc \in {"post_filter", "print"}

IsMergeCommit == "MergeCommit" \in commit.classes

\* C1: the score is Ignored exactly when the classes of the commit contain
\* Merge; for a merge no rule is called, whatever the message, and every
\* commit without Merge gets Scored{score, grade}.
C1_IgnoredIffMerge ==
    HasScore =>
        /\ scored = Ignored <=> IsMergeCommit
        /\ IsMergeCommit => called = <<>>
        /\ ~IsMergeCommit =>
               /\ scored.tag = "Scored"
               /\ scored.score \in Nat
               /\ scored.grade \in Grade

\* a merge whose message would score well has been ignored
C1_Witness ==
    /\ HasScore
    /\ IsMergeCommit
    /\ commit.msg_info.body_len > 0
    /\ commit.msg_info.break_after_subject
    /\ commit.msg_info.metadata_lines = 3
    /\ scored = Ignored
    /\ called = <<>>

\* the sum of the weighted rule outputs, with the weights of the claims
WeightedSum(c) ==
    FAdd(FMul(Frac(30, 1), SubjectRule(c)),
    FAdd(FMul(Frac(10, 1), BodyPresenceRule(c)),
    FAdd(FMul(Frac(10, 1), SubjectBodyBreakRule(c)),
    FAdd(FMul(Frac(25, 1), BodyLenRule(c)),
    FAdd(FMul(Frac(25, 1), BodyWrappingRule(c)),
         FMul(Frac(5, 1), MetadataLinesRule(c)))))))

InUnitInterval(a) == ~IsNaN(a) /\ a[1] >= 0 /\ a[1] <= a[2]

\* C2: for a commit that is no merge the score is an integer of 0..100, and
\* it is 100 when the weighted sum of the rule outputs exceeds 100.
C2_ScoreAtMost100 ==
    (HasScore /\ ~IsMergeCommit) =>
        /\ \A k \in 1..Len(init_scorer) :
               InUnitInterval(RuleScore(init_scorer[k].rule, commit))
        /\ scored.score \in 0..100
        /\ FGt(WeightedSum(commit), <<100, 1>>) => scored.score = 100

\* every rule gives 1.0, the weighted sum is 105 and the score is 100
C2_Witness ==
    /\ HasScore
    /\ ~IsMergeCommit
    /\ WeightedSum(commit) = <<105, 1>>
    /\ scored.score = 100

\* C3: the grade of a Scored result follows from its score: 0-19 F, 20-39 D,
\* 40-59 C, 60-79 B, 80-100 A; so no lower score has a better grade.
C3_GradeFromScore ==
    (HasScore /\ ~IsMergeCommit) =>
        /\ scored.grade = "F" <=> scored.score <= 19
        /\ scored.grade = "D" <=> (20 <= scored.score /\ scored.score <= 39)
        /\ scored.grade = "C" <=> (40 <= scored.score /\ scored.score <= 59)
        /\ scored.grade = "B" <=> (60 <= scored.score /\ scored.score <= 79)
        /\ scored.grade = "A" <=> (80 <= scored.score /\ scored.score <= 100)
        /\ \A lower \in 0..scored.score :
               GradeIndex(grade_of_score(lower)) <= GradeIndex(scored.grade)

\* a score at the lower end of A
C3_Witness ==
    /\ HasScore
    /\ ~IsMergeCommit
    /\ scored.score = 80
    /\ scored.grade = "A"

\* round to the nearest integer, halves upwards, of a fraction >= 0
RoundNearest(a) == (2 * a[1] + a[2]) \div (2 * a[2])

SixRules ==
    <<"SubjectRule", "BodyPresenceRule", "SubjectBodyBreakRule", "BodyLenRule",
      "BodyWrappingRule", "MetadataLinesRule">>

\* C4: for a commit that is no merge, score = round(min(100, sum)) where sum
\* adds 100 * rule.score(commit) * weight over SubjectRule 0.30,
\* BodyPresenceRule 0.10, SubjectBodyBreakRule 0.10, BodyLenRule 0.25,
\* BodyWrappingRule 0.25, MetadataLinesRule 0.05, each rule called once.
C4_ScoreIsRoundedWeightedSum ==
    (HasScore /\ ~IsMergeCommit) =>
        /\ scored.score =
               IF FGt(WeightedSum(commit), <<100, 1>>) THEN 100
               ELSE RoundNearest(WeightedSum(commit))
        /\ called = SixRules

\* a sum of 87.5, halfway between two integers, has been rounded to 88
C4_Witness ==
    /\ HasScore
    /\ ~IsMergeCommit
    /\ WeightedSum(commit) = Frac(175, 2)
    /\ scored.score = 88
    /\ called = SixRules

\* C8: for every commit built by parse, 'parent_count >= 2', 'the classes
\* contain Merge' and 'diff_info is absent' are equivalent; Merge, when in the
\* classes, is alone there, and the classifier never returns Merge.
C8_MergeIffTwoParents ==
    HasCommit =>
        /\ commit.metadata.parents >= 2 <=> IsMergeCommit
        /\ IsMergeCommit <=> commit.diff_info = None
        /\ IsMergeCommit => commit.classes = {"MergeCommit"}
        /\ "MergeCommit" \notin
               do_classify_commit(commit.metadata,
                                  DiffInfoNew(item.insertions, item.deletions),
                                  commit.msg_info)

\* a commit of exactly two parents has been built as a merge without diff
C8_Witness ==
    /\ HasCommit
    /\ commit.metadata.parents = 2
    /\ commit.classes = {"MergeCommit"}
    /\ commit.diff_info = None

\* MergePreFilter is in the chain of pre-filters of the run
FiltersMerges ==
    \E k \in 1..Len(config.pre_filters) : config.pre_filters[k] = MergePreFilter

\* the pre-filters have been applied to the item, nothing else has
PreFiltered == pc = "parse" \/ (pc = "rejected" /\ commit = None)

\* C16: MergePreFilter accepts the metadata of a commit exactly when it has
\* at most one parent, that is, when parse does not build the commit as a
\* merge; it is in the chain unless --merges is given, and then no commit
\* that is printed has the score Ignored.
C16_MergePreFilterRejectsMerges ==
    /\ arg.merges = 0 => FiltersMerges
    /\ PreFiltered =>
           \A k \in 1..Len(consulted) :
               consulted[k] = MergePreFilter =>
                   /\ (k < Len(consulted) \/ accepted)
                          <=> item.metadata.parents <= 1
                   /\ (k < Len(consulted) \/ accepted)
                          <=> "MergeCommit" \notin parse(item).classes
    /\ (HasCommit /\ FiltersMerges) => ~IsMergeCommit
    /\ (pc = "print" /\ FiltersMerges) => scored # Ignored

\* a commit of two parents has been rejected by MergePreFilter
C16_Witness ==
    /\ pc = "rejected"
    /\ commit = None
    /\ arg.merges = 0
    /\ consulted = <<MergePreFilter>>
    /\ item.metadata.parents = 2
    /\ accepted = FALSE

\* a commit of one parent is printed with a grade in a default run
C16_WitnessPrinted ==
    /\ pc = "print"
    /\ arg.merges = 0
    /\ commit.metadata.parents = 1
    /\ scored.tag = "Scored"

\* C20: each of the six rules returns a value of the closed interval [0, 1]
\* for every commit built by parse, the commits of an empty message, of a
\* diff of no line and of no parent included.
C20_RulesInUnitInterval ==
    HasCommit =>
        \A rule \in { SixRules[k] : k \in 1..Len(SixRules) } :
            InUnitInterval(RuleScore(rule, commit))

\* a commit that is not special has a BodyLenRule value strictly inside
C20_Witness ==
    /\ HasCommit
    /\ ~IsMergeCommit
    /\ ~commit_is_special(commit)
    /\ commit.msg_info.body_len > 0
    /\ FGt(BodyLenRule(commit), <<0, 1>>)
    /\ FGt(<<1, 1>>, BodyLenRule(commit))

\* a commit of an empty message, no parent and a diff of one line
C20_WitnessEmpty ==
    /\ HasCommit
    /\ commit.msg_info = MessageInfoNew("")
    /\ commit.metadata.parents = 0
    /\ commit.diff_info # None
    /\ commit.diff_info[1].diff_total = 1
    /\ BodyLenRule(commit) = <<1, 1>>

\* the subject of the commit, "" when the message has no line
SubjectText(c) ==
    IF c.msg_info.subject = None THEN "" ELSE c.msg_info.subject[1]

\* the number of places of s where a token starts
TokenCount(s) ==
    Cardinality({ i \in 1..Len(s) :
                    /\ CharAt(s, i) \notin WhiteSpace
                    /\ (i = 1 \/ CharAt(s, i - 1) \in WhiteSpace) })

\* the value a is the quotient n / d
IsQuotient(a, n, d) == ~IsNaN(a) /\ a[1] * d = n * a[2]

\* C21: SubjectRule gives 1.0 to every Initial commit; otherwise 0.0 to an
\* absent subject or one of at most one token; otherwise, by the length len
\* of the subject, 0 up to 10, (len-10)/10 for 11..20, 1.0 for 21..70,
\* (100-len)/100 for 71..100 and 0.0 above 100.
C21_SubjectRuleCurve ==
    HasCommit =>
        LET subject == SubjectText(commit)
            len     == Len(subject)
            score   == SubjectRule(commit)
        IN  /\ "InitialCommit" \in commit.classes => IsQuotient(score, 1, 1)
            /\ "InitialCommit" \notin commit.classes =>
                   /\ (commit.msg_info.subject = None \/ TokenCount(subject) <= 1)
                          => IsQuotient(score, 0, 1)
                   /\ (commit.msg_info.subject # None /\ TokenCount(subject) > 1) =>
                          /\ len <= 10 => IsQuotient(score, 0, 1)
                          /\ len \in 11..20 => IsQuotient(score, len - 10, 10)
                          /\ len \in 21..70 => IsQuotient(score, 1, 1)
                          /\ len \in 71..100 => IsQuotient(score, 100 - len, 100)
                          /\ len > 100 => IsQuotient(score, 0, 1)

\* a subject of 71 characters and several tokens scores 0.29
C21_Witness ==
    /\ HasCommit
    /\ "InitialCommit" \notin commit.classes
    /\ TokenCount(SubjectText(commit)) > 1
    /\ Len(SubjectText(commit)) = 71
    /\ SubjectRule(commit) = <<29, 100>>

\* a subject of 70 characters scores 1.0
C21_WitnessOptimal ==
    /\ HasCommit
    /\ "InitialCommit" \notin commit.classes
    /\ TokenCount(SubjectText(commit)) > 1
    /\ Len(SubjectText(commit)) = 70
    /\ SubjectRule(commit) = <<1, 1>>

\* an Initial commit of a single word scores 1.0, and a later commit of a
\* single long word scores 0.0
C21_WitnessInitial ==
    /\ HasCommit
    /\ \/ /\ "InitialCommit" \in commit.classes
          /\ SubjectText(commit) = "Fix"
          /\ SubjectRule(commit) = <<1, 1>>
       \/ /\ "InitialCommit" \notin commit.classes
          /\ SubjectText(commit) = "ABC-1234567890"
          /\ SubjectRule(commit) = <<0, 1>>

\* the classes of the commit contain Short, Refactor or Initial
IsSpecialCommit ==
    \/ "ShortCommit" \in commit.classes
    \/ "RefactorCommit" \in commit.classes
    \/ "InitialCommit" \in commit.classes

\* C22: for every special commit whose message has no body line,
\* BodyPresenceRule, SubjectBodyBreakRule, BodyLenRule and BodyWrappingRule
\* all return 1.0.
C22_SpecialWithoutBody ==
    (HasCommit /\ IsSpecialCommit /\ commit.msg_info.body_lines = 0) =>
        /\ BodyPresenceRule(commit) = <<1, 1>>
        /\ SubjectBodyBreakRule(commit) = <<1, 1>>
        /\ BodyLenRule(commit) = <<1, 1>>
        /\ BodyWrappingRule(commit) = <<1, 1>>

\* a Short commit of a subject alone, which is neither Initial nor a merge
C22_Witness ==
    /\ HasCommit
    /\ commit.classes = {"ShortCommit"}
    /\ commit.msg_info.subject # None
    /\ commit.msg_info.body_lines = 0
    /\ commit.msg_info.metadata_lines = 0
    /\ BodyWrappingRule(commit) = <<1, 1>>

\* a Refactor commit of a subject alone with a large diff
C22_WitnessRefactor ==
    /\ HasCommit
    /\ commit.classes = {"RefactorCommit"}
    /\ commit.msg_info.body_lines = 0
    /\ commit.diff_info[1].diff_total > 100
    /\ BodyLenRule(commit) = <<1, 1>>

\* C23: with body_len > 0 SubjectBodyBreakRule returns 1.0 if and only if
\* break_after_subject is true, special or not; with body_len = 0 it
\* returns 1.0 if and only if the commit is special; it returns 0.0
\* otherwise.
C23_SubjectBodyBreak ==
    HasCommit =>
        LET score == SubjectBodyBreakRule(commit)
        IN  /\ score \in {<<0, 1>>, <<1, 1>>}
            /\ commit.msg_info.body_len > 0 =>
                   (score = <<1, 1>> <=> commit.msg_info.break_after_subject)
            /\ commit.msg_info.body_len = 0 =>
                   (score = <<1, 1>> <=> IsSpecialCommit)

\* a special commit with a body and no blank line after the subject gets 0.0
C23_Witness ==
    /\ HasCommit
    /\ IsSpecialCommit
    /\ commit.msg_info.body_len > 0
    /\ ~commit.msg_info.break_after_subject
    /\ SubjectBodyBreakRule(commit) = <<0, 1>>

\* a commit that is not special and has no body text gets 0.0, blank line
\* or not
C23_WitnessNoBody ==
    /\ HasCommit
    /\ ~IsSpecialCommit
    /\ ~IsMergeCommit
    /\ commit.msg_info.body_len = 0
    /\ commit.msg_info.break_after_subject
    /\ SubjectBodyBreakRule(commit) = <<0, 1>>

\* C29: for every commit built by CommitInfo::new or
\* CommitInfo::new_from_merge, BodyLenRule reaches its logarithm formula
\* only with diff info present and diff_total >= 25, so the divisor
\* ln(diff_total) is strictly positive and the result is a number >= 0; for
\* every special commit and every commit without diff info it returns 1.0.
C29_BodyLenRuleDivisor ==
    HasCommit =>
        /\ BodyLenRuleReachesFormula(commit) =>
               /\ commit.diff_info # None
               /\ commit.diff_info[1].diff_total >= 25
               /\ ln(commit.diff_info[1].diff_total) > 0
               /\ ~IsNaN(BodyLenRule(commit))
               /\ BodyLenRule(commit)[1] >= 0
        /\ (IsSpecialCommit \/ commit.diff_info = None) =>
               BodyLenRule(commit) = <<1, 1>>

\* a commit of exactly 25 changed lines and an empty body reaches the
\* formula and gets 0.0
C29_Witness ==
    /\ HasCommit
    /\ BodyLenRuleReachesFormula(commit)
    /\ commit.diff_info[1].diff_total = 25
    /\ commit.msg_info.body_len = 0
    /\ BodyLenRule(commit) = <<0, 1>>

\* a merge has no diff info, and a commit of a diff of one line is special
C29_WitnessEarlyReturn ==
    /\ HasCommit
    /\ \/ IsMergeCommit /\ commit.diff_info = None
       \/ /\ commit.diff_info # None
          /\ commit.diff_info[1].diff_total = 1
          /\ commit.classes = {"ShortCommit"}
    /\ BodyLenRule(commit) = <<1, 1>>

\* the message of the item has no line after its subject
SubjectAlone ==
    item.message = None \/ Len(lines(item.message[1])) <= 1

\* C30: every Initial commit (no parent) whose message has no line after
\* the subject scores exactly 100 with grade A, whatever its subject and
\* whatever its diff size.
C30_InitialSubjectAlone ==
    (HasScore /\ commit.metadata.parents = 0 /\ SubjectAlone) =>
        /\ scored.tag = "Scored"
        /\ scored.score = 100
        /\ scored.grade = "A"

\* an Initial commit of a single word and a large diff scores 100
C30_Witness ==
    /\ HasScore
    /\ commit.metadata.parents = 0
    /\ item.message = Some("Fix\n")
    /\ commit.diff_info[1].diff_total > 100
    /\ scored = Scored(100, "A")

\* an Initial commit of an empty message scores 100
C30_WitnessEmpty ==
    /\ HasScore
    /\ commit.metadata.parents = 0
    /\ item.message = Some("")
    /\ commit.msg_info.subject = None
    /\ scored = Scored(100, "A")

\* C28: a commit that is no merge and not special and whose message has no
\* body text (body_len = 0) gets 0 from BodyPresenceRule,
\* SubjectBodyBreakRule, BodyLenRule and BodyWrappingRule, so its score is
\* at most 35 and its grade is never better than D, whatever blank lines or
\* trailer lines the message contains.
C28_Original ==
    (HasScore /\ ~IsMergeCommit /\ ~IsSpecialCommit
        /\ commit.msg_info.body_len = 0) =>
        /\ BodyPresenceRule(commit) = <<0, 1>>
        /\ SubjectBodyBreakRule(commit) = <<0, 1>>
        /\ BodyLenRule(commit) = <<0, 1>>
        /\ BodyWrappingRule(commit) = <<0, 1>>
        /\ scored.score <= 35
        /\ scored.grade \in {"F", "D"}

----------------------------------------------------------------------------
(* Claims on the classifier, under SpecClassify *)

Classified == pc = "classified"

RECURSIVE WordsOf(_)
\* the maximal runs of word characters of a text
WordsOf(s) ==
    IF s = "" THEN {}
    ELSE IF ~IsWordChar(CharAt(s, 1)) THEN WordsOf(Tail(s))
    ELSE LET stop == IF \E i \in 1..Len(s) : ~IsWordChar(CharAt(s, i))
                     THEN CHOOSE i \in 1..Len(s) :
                              /\ ~IsWordChar(CharAt(s, i))
                              /\ \A j \in 1..(i - 1) : IsWordChar(CharAt(s, j))
                     ELSE Len(s) + 1
         IN  {SubSeq(s, 1, stop - 1)} \cup WordsOf(SubSeq(s, stop, Len(s)))

RefactorWords == {"move", "moved", "rename", "renamed"}

HasRefactorWord(subject) ==
    /\ subject # None
    /\ \E w \in WordsOf(subject[1]) : to_ascii_lowercase(w) \in RefactorWords

\* C5: Refactor is in the classes exactly when |deletions - insertions| <=
\* floor(0.05 * (insertions + deletions)) and the subject holds one of the
\* whole words move, moved, rename, renamed in any case at any position; a
\* keyword inside a longer word, or an absent subject, never gives Refactor.
C5_RefactorIff ==
    Classified =>
        ("RefactorCommit" \in classes
            <=> /\ Abs(item.diff_info.deletions - item.diff_info.insertions)
                       <= (5 * (item.diff_info.insertions + item.diff_info.deletions)) \div 100
                /\ HasRefactorWord(item.msg_info.subject))

\* a keyword in the middle, in mixed case, within the allowance: Refactor set
C5_Witness ==
    /\ Classified
    /\ item.msg_info.subject = Some("I MoVe it")
    /\ item.diff_info.insertions = 10 /\ item.diff_info.deletions = 11
    /\ "RefactorCommit" \in classes

\* the keyword as part of a longer word, with equal sides: Refactor not set
C5_WitnessLongerWord ==
    /\ Classified
    /\ item.msg_info.subject = Some("movement")
    /\ item.diff_info.insertions = item.diff_info.deletions
    /\ "RefactorCommit" \notin classes

\* C6: Initial is in the classes exactly when parent_count = 0, whatever the
\* diff and the subject; with one parent or more it never is.
C6_InitialIff ==
    Classified => ("InitialCommit" \in classes <=> item.metadata.parents = 0)

\* a commit of several parents and an empty diff has been classified
C6_Witness ==
    /\ Classified
    /\ item.metadata.parents >= 2
    /\ item.diff_info.diff_total = 0
    /\ "InitialCommit" \notin classes

\* C7: Short is in the classes exactly when insertions + deletions < 25,
\* whatever the parent count and the message.
C7_ShortIff ==
    Classified =>
        ("ShortCommit" \in classes
            <=> item.diff_info.insertions + item.diff_info.deletions < 25)

\* a diff of exactly 25 lines has been classified as not short
C7_Witness ==
    /\ Classified
    /\ item.diff_info.insertions + item.diff_info.deletions = 25
    /\ "ShortCommit" \notin classes

\* a diff of exactly 24 lines has been classified as short
C7_WitnessBelow ==
    /\ Classified
    /\ item.diff_info.insertions + item.diff_info.deletions = 24
    /\ "ShortCommit" \in classes

----------------------------------------------------------------------------
(* Claims on GradeSpec::from_str, under SpecGrade *)

ValidGradeChar(c) == c \in {"A", "B", "C", "D", "F", "a", "b", "c", "d", "f"}

Parsed == pc \in {"configured", "exit", "matched"}

\* C9: formatting a (grade, relation) pair as the grade letter followed by
\* "" for Eq, "+" for Ge, "-" for Le, in upper or in lower case, and parsing
\* the text gives back exactly that pair.
C9_ParseInvertsFormat ==
    Parsed =>
        \A g \in Grade, r \in Relation :
            arg \in {Format(g, r), to_ascii_lowercase(Format(g, r))}
                => spec = Ok([grade |-> g, rel |-> r])

\* a lower-case Le text has been parsed
C9_Witness ==
    /\ Parsed
    /\ arg = to_ascii_lowercase(Format("D", "Le"))
    /\ spec = Ok([grade |-> "D", rel |-> "Le"])

\* C10 as stated: TrailingInput for every input of more than two characters
\* that starts with a grade letter, and InvalidRelation only for inputs of
\* exactly two characters whose second is neither '+' nor '-'.
C10_Original ==
    Parsed =>
        /\ (Len(arg) > 2 /\ ValidGradeChar(CharAt(arg, 1)))
               => spec = Err(TrailingInput)
        /\ spec = Err(InvalidRelation)
               => (Len(arg) = 2 /\ CharAt(arg, 2) \notin {"+", "-"})

\* C10 amended: the relation character is examined before the length, so
\* TrailingInput is the error exactly of the inputs of more than two
\* characters that start with a grade letter followed by '+' or '-', and
\* InvalidRelation exactly of the inputs of two or more characters that
\* start with a grade letter followed by any other character.
C10_TrailingAfterRelation ==
    Parsed =>
        /\ spec = Err(TrailingInput)
               <=> /\ Len(arg) > 2
                   /\ ValidGradeChar(CharAt(arg, 1))
                   /\ CharAt(arg, 2) \in {"+", "-"}
        /\ spec = Err(InvalidRelation)
               <=> /\ Len(arg) >= 2
                   /\ ValidGradeChar(CharAt(arg, 1))
                   /\ CharAt(arg, 2) \notin {"+", "-"}

\* a long input with a bad relation character has been rejected
C10_Witness ==
    /\ Parsed
    /\ arg = "Abyrvalg!"
    /\ spec = Err(InvalidRelation)

\* C11: from_str fails with MissingGrade exactly on the empty text and with
\* InvalidGrade exactly on a text whose first character is none of A, B, C,
\* D, F in either case, whatever follows; an error carries no GradeSpec.
C11_GradeErrors ==
    Parsed =>
        /\ (~spec.ok /\ spec.err = MissingGrade) <=> arg = ""
        /\ (~spec.ok /\ spec.err = InvalidGrade)
               <=> (arg # "" /\ ~ValidGradeChar(CharAt(arg, 1)))
        /\ ~spec.ok => (DOMAIN spec = {"ok", "err"} /\ pc = "exit")

\* a relation character followed by a grade letter has been rejected
C11_Witness ==
    /\ Parsed
    /\ arg = "+A"
    /\ spec = Err(InvalidGrade)

\* a relation character alone has been rejected for its grade
C11_WitnessAlone ==
    /\ Parsed
    /\ arg \in {"+", "-"}
    /\ spec = Err(InvalidGrade)

\* the order F < D < C < B < A of the claims, by rank
GradeRank(g) ==
    CASE g = "F" -> 0 [] g = "D" -> 1 [] g = "C" -> 2 [] g = "B" -> 3 [] g = "A" -> 4

Matched == pc = "matched"

\* C12: matches(g) is g = spec.grade for Eq, g >= spec.grade for Ge and
\* g <= spec.grade for Le, in the order F < D < C < B < A; so a grade matches
\* the Ge and the Le spec of a grade exactly when it matches its Eq spec.
C12_MatchesByRelation ==
    Matched =>
        LET self == spec.value
        IN  /\ self.rel = "Eq" => (accepted <=> grade_arg = self.grade)
            /\ self.rel = "Ge" =>
                   (accepted <=> GradeRank(grade_arg) >= GradeRank(self.grade))
            /\ self.rel = "Le" =>
                   (accepted <=> GradeRank(grade_arg) <= GradeRank(self.grade))
            /\ (/\ matches([self EXCEPT !.rel = "Ge"], grade_arg)
                /\ matches([self EXCEPT !.rel = "Le"], grade_arg))
                   <=> matches([self EXCEPT !.rel = "Eq"], grade_arg)

\* the grade of a Ge spec has matched that spec
C12_Witness ==
    /\ Matched
    /\ spec.value = [grade |-> "C", rel |-> "Ge"]
    /\ grade_arg = "C"
    /\ accepted = TRUE

Compared == pc = "compared"

\* C13: the comparison of Grade is a strict total order with
\* F < D < C < B < A: it is irreflexive and transitive, and two distinct
\* grades compare in exactly one direction.
C13_GradeStrictTotalOrder ==
    Compared =>
        /\ ~ordering.lt_aa
        /\ item.a # item.b => (ordering.lt_ab <=> ~ordering.lt_ba)
        /\ item.a = item.b => (~ordering.lt_ab /\ ~ordering.lt_ba)
        /\ (ordering.lt_ab /\ ordering.lt_bc) => ordering.lt_ac
        /\ ordering.lt_ab <=> GradeRank(item.a) < GradeRank(item.b)
        /\ ordering.gt_ba <=> ordering.lt_ab

\* F < C and C < A have given F < A
C13_Witness ==
    /\ Compared
    /\ item = [a |-> "F", b |-> "C", c |-> "A"]
    /\ ordering.lt_ab
    /\ ordering.lt_bc
    /\ ordering.lt_ac
    /\ ~ordering.lt_ba

Filtered == pc = "filtered"

\* a grade spec read with the order F < D < C < B < A of the claims
MatchesByRank(self, g) ==
    CASE self.rel = "Eq" -> GradeRank(g) = GradeRank(self.grade)
      [] self.rel = "Ge" -> GradeRank(g) >= GradeRank(self.grade)
      [] self.rel = "Le" -> GradeRank(g) <= GradeRank(self.grade)

\* C14: GradePostFilter(spec) accepts a scored commit exactly when its score
\* is Ignored, or is Scored with a grade that spec matches; an Ignored commit
\* is accepted whatever the spec.
C14_GradePostFilterAccepts ==
    (Filtered /\ Len(item.chain) = 1 /\ item.chain[1].kind = "GradePostFilter") =>
        LET self  == item.chain[1].spec
            score == item.descriptor.score
        IN  /\ accepted <=> \/ score = Ignored
                            \/ /\ score.tag = "Scored"
                               /\ MatchesByRank(self, score.grade)
            /\ score = Ignored => accepted

\* an Ignored commit has passed the filter of the spec "A"
C14_Witness ==
    /\ Filtered
    /\ item.chain = <<GradePostFilterNew([grade |-> "A", rel |-> "Eq"])>>
    /\ item.descriptor.score = Ignored
    /\ accepted = TRUE

\* a commit graded below the spec "B+" has been rejected
C14_WitnessRejected ==
    /\ Filtered
    /\ item.chain = <<GradePostFilterNew([grade |-> "B", rel |-> "Ge"])>>
    /\ item.descriptor.score # Ignored
    /\ item.descriptor.score.grade = "C"
    /\ accepted = FALSE

\* the filters of the chain up to the first that rejects d, or all of them
UpToFirstRejecting(chain, d) ==
    LET rejecting == { k \in 1..Len(chain) : ~FilterAccept(chain[k], d) }
    IN  IF rejecting = {} THEN chain
        ELSE SubSeq(chain, 1, CHOOSE k \in rejecting : \A j \in rejecting : k <= j)

\* C15: FilterChain.accept(d) is true exactly when every filter of the chain
\* accepts d; the empty chain accepts every d, the result is the same for
\* every order of the filters, and no filter after the first rejecting one
\* is consulted.
C15_ChainAcceptsIffAll ==
    Filtered =>
        LET chain == item.chain
            d     == item.descriptor
        IN  /\ accepted <=> \A k \in 1..Len(chain) : FilterAccept(chain[k], d)
            /\ Len(chain) = 0 => accepted
            /\ \A f \in Permutations(1..Len(chain)) :
                   FilterChainAccept([k \in 1..Len(chain) |-> chain[f[k]]], d)
                       = accepted
            /\ consulted = UpToFirstRejecting(chain, d)

\* the second of three filters has rejected, the third has not been called
C15_Witness ==
    /\ Filtered
    /\ Len(item.chain) = 3
    /\ FilterAccept(item.chain[1], item.descriptor)
    /\ ~FilterAccept(item.chain[2], item.descriptor)
    /\ FilterAccept(item.chain[3], item.descriptor)
    /\ consulted = SubSeq(item.chain, 1, 2)
    /\ accepted = FALSE

\* an empty chain has accepted a merge
C15_WitnessEmpty ==
    /\ Filtered
    /\ item.chain = <<>>
    /\ item.descriptor \in FilterMetadata
    /\ item.descriptor.parents >= 2
    /\ accepted = TRUE

----------------------------------------------------------------------------
(* Claims on MessageInfo::new, under SpecMessage *)

MessageParsed == pc = "message_parsed"

\* the message is a subject, one empty line and then trailers of a known key
SubjectBlankTrailers(ls) ==
    /\ Len(ls) >= 3
    /\ ls[2] = ""
    /\ \A k \in 3..Len(ls) : ls[k] \in TrailerLines

\* C17: for a message made of a subject line, one empty line and then only
\* trailer lines of a known key, the parser gives subject = the first line,
\* break_after_subject = true, body_len = 0, body_lines = 0 and
\* metadata_lines = the number of trailer lines.
C17_Original ==
    LET ls == lines(item.raw_message)
    IN  (MessageParsed /\ SubjectBlankTrailers(ls)) =>
            /\ message_info.subject = Some(ls[1])
            /\ message_info.break_after_subject
            /\ message_info.body_len = 0
            /\ message_info.body_lines = 0
            /\ message_info.metadata_lines = Len(ls) - 2

\* C18: break_after_subject is true exactly when the message has a line of
\* index 1 and that line is empty: it is false for the empty message, for a
\* message of one line and whenever line 1 has a character; subject is None
\* exactly when the message has no line at all.
C18_BreakIffLineOneEmpty ==
    MessageParsed =>
        LET ls == lines(item.raw_message)
        IN  /\ message_info.break_after_subject <=> (Len(ls) >= 2 /\ ls[2] = "")
            /\ item.raw_message = "" => ~message_info.break_after_subject
            /\ Len(ls) = 1 => ~message_info.break_after_subject
            /\ (Len(ls) >= 2 /\ Len(ls[2]) > 0)
                   => ~message_info.break_after_subject
            /\ message_info.subject = None <=> item.raw_message = ""
            /\ Len(ls) >= 1 => message_info.subject = Some(ls[1])

\* the empty line 1 of a message of four lines has set the break
C18_Witness ==
    /\ MessageParsed
    /\ item.raw_message = "Fix bug\n\nBody text.\n\n"
    /\ message_info.break_after_subject
    /\ message_info.subject = Some("Fix bug")

\* an empty line 2 after a line 1 of text has not set the break
C18_WitnessLaterBlank ==
    /\ MessageParsed
    /\ item.raw_message = "Fix bug\nBody text.\n\nBody text."
    /\ ~message_info.break_after_subject

RECURSIVE SumLen(_, _)
\* the lengths of the lines of ls at the indices ks, added up
SumLen(ls, ks) ==
    IF ks = {} THEN 0
    ELSE LET k == CHOOSE j \in ks : TRUE
         IN  Len(ls[k]) + SumLen(ls, ks \ {k})

\* C19: every line after the subject is counted once, in metadata_lines or in
\* body_lines, so that both add up to the number of lines less one; body_len
\* is the sum of the lengths of the lines counted as body, and
\* body_unwrapped_lines, the body lines of more than 80, is at most body_lines.
C19_LinesCountedOnce ==
    MessageParsed =>
        LET ls   == lines(item.raw_message)
            meta == { k \in 2..Len(ls) : IsMetaLine(ls[k]) }
            body == (2..Len(ls)) \ meta
        IN  /\ Len(ls) >= 1 =>
                   message_info.metadata_lines + message_info.body_lines
                       = Len(ls) - 1
            /\ message_info.metadata_lines = Cardinality(meta)
            /\ message_info.body_lines = Cardinality(body)
            /\ message_info.body_len = SumLen(ls, body)
            /\ message_info.body_unwrapped_lines
                   = Cardinality({ k \in body : Len(ls[k]) > 80 })
            /\ message_info.body_unwrapped_lines <= message_info.body_lines

\* a trailer, a line of 81 and a line of 80 have been counted
C19_Witness ==
    /\ MessageParsed
    /\ lines(item.raw_message)
           = <<"Fix bug", "Cc: b", Pad("long ", 81), Pad("wrapped ", 80)>>
    /\ message_info.metadata_lines = 1
    /\ message_info.body_lines = 2
    /\ message_info.body_len = 161
    /\ message_info.body_unwrapped_lines = 1

\* the line has the form 'Key: value': it contains a ':' and the text before
\* the first ':', trimmed and lower-cased, is a known trailer keyword
KeyValueLine(line) ==
    /\ \E i \in 1..Len(line) : CharAt(line, i) = ":"
    /\ LET first == CHOOSE i \in 1..Len(line) :
                        /\ CharAt(line, i) = ":"
                        /\ \A j \in 1..(i - 1) : CharAt(line, j) # ":"
       IN  to_ascii_lowercase(trim(SubSeq(line, 1, first - 1))) \in META_KEYS

\* the line has no ':' at all
NoColonLine(line) == \A i \in 1..Len(line) : CharAt(line, i) # ":"

\* C27: a line after the subject is counted as a metadata line only if it
\* has the form 'Key: value' with a known trailer keyword before the first
\* ':'; a line without any ':' (such as "fixes" or "cc" alone) is counted
\* as a body line.
C27_Original ==
    MessageParsed =>
        LET ls == lines(item.raw_message)
        IN  /\ message_info.metadata_lines
                   <= Cardinality({ k \in 2..Len(ls) : KeyValueLine(ls[k]) })
            /\ message_info.body_lines
                   >= Cardinality({ k \in 2..Len(ls) : NoColonLine(ls[k]) })

----------------------------------------------------------------------------
(* Claims on the loop of main, under SpecRun *)

\* the places of the traversal whose commit has been printed, in the order
\* of the printing
EmittedPlaces == [n \in 1..Len(emitted) |-> emitted[n].index]

\* the steps of worked taken on the commit of place k
StepsOf(k) == { worked[n][2] : n \in { m \in 1..Len(worked) : worked[m][1] = k } }

\* C24: the commits are emitted in the order of the traversal: the emitted
\* sequence is a subsequence of the traversal, each traversed commit is
\* emitted at most once, and a commit is filtered, parsed, scored and
\* emitted or dropped before the next one is pulled.
C24_EmittedInTraversalOrder ==
    /\ \A n \in 1..Len(emitted) :
           /\ emitted[n].index \in 1..position
           /\ emitted[n].commit.metadata = traversal[emitted[n].index].metadata
           /\ emitted[n].commit.msg_info
                  = (IF traversal[emitted[n].index].message = None
                     THEN MessageInfoDefault
                     ELSE MessageInfoNew(traversal[emitted[n].index].message[1]))
    /\ \A m, n \in 1..Len(emitted) :
           m < n => emitted[m].index < emitted[n].index
    /\ \A n \in 1..Len(worked) :
           IF worked[n][2] = "next"
           THEN /\ worked[n][1] = (IF n = 1 THEN 1 ELSE worked[n - 1][1] + 1)
                /\ n > 1 => worked[n - 1][2] \in {"print", "continue"}
           ELSE /\ n > 1
                /\ worked[n][1] = worked[n - 1][1]
                /\ worked[n - 1][2] \notin {"print", "continue"}

\* of three commits the first and the third have been printed, the second
\* dropped in between
C24_Witness ==
    /\ pc = "done"
    /\ Len(traversal) = 3
    /\ EmittedPlaces = <<1, 3>>
    /\ StepsOf(2) = {"next", "pre_filter", "continue"}
    /\ traversal[1] # traversal[3]

\* every pre-filter of the configuration accepts the metadata
PreFiltersAccept(metadata) ==
    \A n \in 1..Len(config.pre_filters) :
        FilterAccept(config.pre_filters[n], metadata)

\* C25: a commit whose metadata the pre-filter chain rejects is never
\* parsed, scored or emitted; the parse and the scoring of a commit come
\* only after every pre-filter has accepted its metadata.
C25_RejectedNeverParsed ==
    /\ \A k \in 1..position :
           /\ ~PreFiltersAccept(traversal[k].metadata) =>
                  /\ StepsOf(k) \subseteq {"next", "pre_filter", "continue"}
                  /\ \A n \in 1..Len(emitted) : emitted[n].index # k
           /\ \A n \in 1..Len(worked) :
                  (worked[n][1] = k /\ worked[n][2] \in {"parse", "score"}) =>
                      /\ PreFiltersAccept(traversal[k].metadata)
                      /\ \E m \in 1..(n - 1) : worked[m] = <<k, "pre_filter">>
    /\ (pc \in {"pre_filter", "rejected"} /\ ~PreFiltersAccept(item.metadata)) =>
           commit = None /\ scored = None
    /\ commit # None => PreFiltersAccept(item.metadata)

\* a merge has been rejected by the pre-filters and skipped, and the next
\* commit has been parsed
C25_Witness ==
    /\ position >= 2
    /\ ~PreFiltersAccept(traversal[1].metadata)
    /\ StepsOf(1) = {"next", "pre_filter", "continue"}
    /\ "parse" \in StepsOf(2)

\* the commit passes the pre-filters and, once parsed and scored, the
\* post-filters
PassesFilters(it) ==
    /\ PreFiltersAccept(it.metadata)
    /\ \A n \in 1..Len(config.post_filters) :
           FilterAccept(config.post_filters[n],
                        ScoredCommitNew(parse(it),
                                        score_internal(init_scorer, parse(it))))

RECURSIVE PassingPlaces(_)
\* the places up to k whose commit passes the filters, in order
PassingPlaces(k) ==
    IF k = 0 THEN <<>>
    ELSE IF PassesFilters(traversal[k]) THEN Append(PassingPlaces(k - 1), k)
    ELSE PassingPlaces(k - 1)

\* the sequence s cut after its first n elements
FirstOf(s, n) == IF Len(s) <= n THEN s ELSE SubSeq(s, 1, n)

C26_WitnessNoLimit ==
    /\ pc = "done"
    /\ config.max_commits = None
    /\ EmittedPlaces = <<1, 2, 3>>

====
